---- MODULE Spec2Model ----
(***************************************************************************)
(* The safe-delete and recovery engine of plex-poster-manager:             *)
(* backend/file_manager.py, class FileManager.                             *)
(*                                                                         *)
(* The state is the filesystem the engine works on (the artwork files, the *)
(* backup root with its timestamp-named namespace directories and the      *)
(* persisted operations.json), the in-memory list self.operations, the     *)
(* wall clock, and the value the last call returned.                       *)
(*                                                                         *)
(* Every method is first written as an operator on a "world" record        *)
(*   [fs, backup, operations, operations_log]                              *)
(* that yields the world after the call and the returned dict, so that     *)
(* delete_multiple can run delete_file once per path inside one action.    *)
(* I/O that may raise (mkdir, shutil.move, Path.unlink, the write of the   *)
(* log) is given a BOOLEAN input: TRUE when the call goes through, FALSE   *)
(* when it raises OSError before changing anything on disk.                *)
(*                                                                         *)
(* The Flask server of backend/app.py serves requests on threads that      *)
(* share one FileManager; the variable threads holds the calls that are in *)
(* progress statement by statement.                                        *)
(***************************************************************************)
EXTENDS Integers, Sequences, FiniteSets, TLC

VARIABLES
    fs,               \* artwork files: path -> content, or NoFile
    backup,           \* backup root: namespace directory name -> (leaf name -> content or NoFile)
    operations,       \* self.operations, the in-memory log
    operations_log,   \* operations.json on disk: [exists, data]
    now,              \* the wall clock, in whole seconds
    result,           \* the last call: [call, args, ret]
    deleted_content,  \* history: content each logged Operation relocated
    issued,           \* history: ids returned by successful deletes
    reused,           \* history: a successful delete returned an id issued before
    swept,            \* history: log indices of the undoable Operations whose
                      \* namespace a retention sweep removed
    threads           \* request threads: thread -> the call it runs and its locals

vars == <<fs, backup, operations, operations_log, now, result,
          deleted_content, issued, reused, swept, threads>>

(***************************************************************************)
(* Bounds of the model.                                                    *)
(***************************************************************************)
MaxOps == 2
MaxSec == 1
MaxDay == 1
MaxEntries == 4
MaxLen == 5
MaxListed == 3

\* The size of a read of _get_file_hash (4096 in the source), scaled to the
\* file lengths of the model.
ChunkSize == 2

(***************************************************************************)
(* Program constants and the value sets inputs are drawn from.             *)
(***************************************************************************)
SecondsPerDay == 86400

NoFile == "NoFile"
Contents == {"c1", "c2"}

\* A path is <<parent directory, leaf name>>; two of them share a leaf name.
Paths == {<<"lib1", "poster.jpg">>, <<"lib2", "poster.jpg">>, <<"lib1", "art.jpg">>}

\* Path(file_path).name
Name(p) == p[2]

Leaves == {Name(p) : p \in Paths}

\* Path(file_path).parent, and the directories the artwork files lie in.  fs
\* maps a directory to Directory while it exists and to NoFile when it is gone.
Parent(p) == <<p[1]>>

Directories == {Parent(p) : p \in Paths}

Directory == "dir"

\* Ids a caller may pass: in range, past the end (MaxOps), and negative (-1:
\* the last entry of a non-empty list, out of range for an empty one).
OpIds == (0 - 1) .. MaxOps

Days == {0, 1}

\* Limits a listing is asked with: none, fewer than, as many as and more than
\* the log can hold.
Limits == 0 .. (MaxOps + 1)

(***************************************************************************)
(* Timestamps.  strftime("%Y%m%d_%H%M%S") keeps the whole second of the    *)
(* clock reading and drops its fraction; a namespace directory is named by *)
(* the formatted string, here <<"ts", second>>.  strptime turns such a     *)
(* name back into the second it was formatted from.                        *)
(***************************************************************************)
Strftime(t) == <<"ts", t>>

Strptime(name) == name[2]

ParsesAsTimestamp(name) == name[1] = "ts"

\* Directories of the backup root that no delete_file made: <<"digits", n>> is
\* a name of digits and underscores that strptime rejects with ValueError
\* (such as 99999999_999999), <<"other", n>> a name with other characters.
ForeignNames == {<<"digits", 0>>, <<"other", 0>>}

\* folder.name.replace("_", "").isdigit()
IsDigits(name) == name[1] \in {"ts", "digits"}

(***************************************************************************)
(* Filesystem helpers.                                                     *)
(***************************************************************************)
EmptyDir == [l \in Leaves |-> NoFile]

\* Mutant: delete_file goes on without looking whether the source exists.
SourceExists_Unchecked(w, p) == TRUE

\* Path.exists() of an artwork path
SourceExists(w, p) == w.fs[p] # NoFile

\* Mutant: only the namespace directory is looked up, not the file in it.
BackupExists_DirOnly(w, bp) == bp[1] \in DOMAIN w.backup

\* Path.exists() of a backup path <<namespace, leaf>>
BackupExists(w, bp) == bp[1] \in DOMAIN w.backup /\ w.backup[bp[1]][bp[2]] # NoFile

\* Mutant: a move leaves a file that is already at the destination in place.
ShutilMove_KeepsExisting(at_destination, content) ==
    IF at_destination # NoFile THEN at_destination ELSE content

\* shutil.move(src, dst): what is at dst afterwards, whatever was there
ShutilMove(at_destination, content) == content

\* Mutant: the parent directories are not made before the move.
MkdirParents_Skipped(files, path) == files

\* original_path.parent.mkdir(parents=True, exist_ok=True)
MkdirParents(files, path) == [files EXCEPT ![Parent(path)] = Directory]

\* Whether a file can be created at path: its parent directory exists.
ParentExists(files, path) == files[Parent(path)] = Directory

\* backup_folder.mkdir(parents=True, exist_ok=True)
Mkdir(bk, d) ==
    IF d \in DOMAIN bk THEN bk
    ELSE [x \in DOMAIN bk \cup {d} |-> IF x = d THEN EmptyDir ELSE bk[x]]

\* json.dump(self.operations, f) into operations.json
SaveOperations(ops) == [exists |-> TRUE, data |-> ops]

\* json.load of operations.json, or [] when the file is absent
LoadOperations(logfile) == IF logfile.exists THEN logfile.data ELSE <<>>

World == [fs |-> fs, backup |-> backup, operations |-> operations,
          operations_log |-> operations_log]

(***************************************************************************)
(* The Operation record.  undone_at and permanently_deleted are dict keys  *)
(* that are absent until set; FALSE stands for "key absent", TRUE for      *)
(* "key present" (the ISO time stored under undone_at is never read).      *)
(* The caller's free-text reason is stored and never read; it is left out. *)
(***************************************************************************)

\* Mutant: ids count from one.
NextId_OneBased(ops) == Len(ops) + 1

\* "id": len(self.operations)
NextId(ops) == Len(ops)

NewOperation(ops, timestamp, source, destination) ==
    [id |-> NextId(ops),
     timestamp |-> timestamp,
     action |-> "delete",
     original_path |-> source,
     backup_path |-> destination,
     can_undo |-> TRUE,
     undone_at |-> FALSE,
     permanently_deleted |-> FALSE]

\* Mutant: the undo clears can_undo and forgets to stamp undone_at.
MarkUndone_NoStamp(operation) == [operation EXCEPT !.can_undo = FALSE]

\* Mutant: the undo also rewrites the Operation's timestamp.
MarkUndone_Restamps(operation) ==
    [operation EXCEPT !.can_undo = FALSE, !.undone_at = TRUE,
                      !.timestamp = <<"ts", 0 - 1>>]

\* operation["can_undo"] = False; operation["undone_at"] = now
MarkUndone(operation) == [operation EXCEPT !.can_undo = FALSE, !.undone_at = TRUE]

\* Mutant: the purge writes True into can_undo instead of False.
MarkPurged_Reopens(operation) ==
    [operation EXCEPT !.can_undo = TRUE, !.permanently_deleted = TRUE]

\* Mutant: the purge sets permanently_deleted and leaves can_undo as it was.
MarkPurged_KeepsUndo(operation) == [operation EXCEPT !.permanently_deleted = TRUE]

\* operation["can_undo"] = False; operation["permanently_deleted"] = True
MarkPurged(operation) ==
    [operation EXCEPT !.can_undo = FALSE, !.permanently_deleted = TRUE]

\* Mutant: the can_undo guard of undo_operation is dropped.
CanUndo_Ignored(operation) == TRUE

\* operation.get("can_undo", False)
CanUndo(operation) == operation.can_undo

(***************************************************************************)
(* self.operations[operation_id] with Python's list indexing: a negative   *)
(* index counts from the end, an index below -len raises IndexError.       *)
(***************************************************************************)
IndexInRange(ops, operation_id) ==
    /\ operation_id < Len(ops)
    /\ operation_id >= 0 - Len(ops)

PyIndex(ops, operation_id) ==
    IF operation_id >= 0 THEN operation_id + 1 ELSE Len(ops) + operation_id + 1

\* The guard both undo_operation and permanently_delete_backup start with.
NotFoundCheck(ops, operation_id) == operation_id >= Len(ops)

NotFound == [success |-> FALSE, error |-> "Operation not found"]

\* str(e) of the OSError an I/O call raised
IOError == [success |-> FALSE, error |-> "OSError"]

\* An exception that leaves the method uncaught
Raised(e) == [raised |-> e]

Out(w, ret) == [w |-> w, ret |-> ret]

IsRaised(ret) == "raised" \in DOMAIN ret

SourceMissing == [success |-> FALSE, error |-> "File does not exist"]

BackupMissing == [success |-> FALSE, error |-> "Backup file not found"]

(***************************************************************************)
(* FileManager.delete_file                                                 *)
(***************************************************************************)
delete_file(w, file_path, t, mkdirOk, moveOk, saveOk) ==
    LET source == file_path
        timestamp == Strftime(t)
        backup_folder == timestamp
        destination == <<backup_folder, Name(source)>>
        made == [w EXCEPT !.backup = Mkdir(w.backup, backup_folder)]
        \* shutil.move replaces whatever file is at the destination
        moved == [made EXCEPT !.fs[source] = NoFile,
                              !.backup[backup_folder][Name(source)] =
                                  ShutilMove(@, w.fs[source])]
        operation == NewOperation(w.operations, timestamp, source, destination)
        logged == [moved EXCEPT !.operations = Append(@, operation)]
        saved == [logged EXCEPT !.operations_log = SaveOperations(logged.operations)]
    IN  IF ~SourceExists(w, source)
          THEN Out(w, SourceMissing)
        \* mkdir is called before the try block: its OSError is not caught
        ELSE IF ~mkdirOk THEN Out(w, Raised("OSError"))
        ELSE IF ~moveOk THEN Out(made, IOError)
        ELSE IF ~saveOk THEN Out(logged, IOError)
        ELSE Out(saved, [success |-> TRUE, operation_id |-> operation.id,
                         backup_path |-> destination])

(***************************************************************************)
(* FileManager.undo_operation                                              *)
(***************************************************************************)
undo_operation(w, operation_id, moveOk, saveOk) ==
    IF NotFoundCheck(w.operations, operation_id) THEN Out(w, NotFound)
    ELSE IF ~IndexInRange(w.operations, operation_id) THEN Out(w, Raised("IndexError"))
    ELSE
      LET i == PyIndex(w.operations, operation_id)
          operation == w.operations[i]
          backup_path == operation.backup_path
          original_path == operation.original_path
          \* shutil.move replaces whatever file is at the original path
          made == [w EXCEPT !.fs = MkdirParents(w.fs, original_path)]
          \* shutil.move raises when the directory of the destination is missing
          moves == moveOk /\ ParentExists(made.fs, original_path)
          moved == [made EXCEPT !.fs[original_path] = w.backup[backup_path[1]][backup_path[2]],
                                !.backup[backup_path[1]][backup_path[2]] = NoFile]
          marked == [moved EXCEPT !.operations[i] = MarkUndone(operation)]
          saved == [marked EXCEPT !.operations_log = SaveOperations(marked.operations)]
      IN  IF ~CanUndo(operation)
            THEN Out(w, [success |-> FALSE, error |-> "Operation cannot be undone"])
          ELSE IF ~BackupExists(w, backup_path)
            THEN Out(w, BackupMissing)
          ELSE IF ~moves THEN Out(made, IOError)
          ELSE IF ~saveOk THEN Out(marked, IOError)
          ELSE Out(saved, [success |-> TRUE, restored_path |-> original_path])

(***************************************************************************)
(* FileManager.permanently_delete_backup                                   *)
(***************************************************************************)
permanently_delete_backup(w, operation_id, unlinkOk, saveOk) ==
    IF NotFoundCheck(w.operations, operation_id) THEN Out(w, NotFound)
    ELSE IF ~IndexInRange(w.operations, operation_id) THEN Out(w, Raised("IndexError"))
    ELSE
      LET i == PyIndex(w.operations, operation_id)
          operation == w.operations[i]
          backup_path == operation.backup_path
          unlinked == [w EXCEPT !.backup[backup_path[1]][backup_path[2]] = NoFile]
          marked == [unlinked EXCEPT !.operations[i] = MarkPurged(operation)]
          saved == [marked EXCEPT !.operations_log = SaveOperations(marked.operations)]
      IN  IF ~BackupExists(w, backup_path)
            THEN Out(w, BackupMissing)
          ELSE IF ~unlinkOk THEN Out(w, IOError)
          ELSE IF ~saveOk THEN Out(marked, IOError)
          ELSE Out(saved, [success |-> TRUE, message |-> "Backup permanently deleted"])

(***************************************************************************)
(* FileManager.get_recent_operations: self.operations[-limit:][::-1].      *)
(* A slice seq[start:] with a negative start begins len + start elements   *)
(* in, or at the first element when that is below zero; a start of zero or *)
(* more begins start elements in.  -limit is 0 when limit is 0.            *)
(***************************************************************************)
PySliceFrom(seq, start) ==
    LET from == IF start < 0
                  THEN (IF Len(seq) + start < 0 THEN 0 ELSE Len(seq) + start)
                  ELSE (IF start > Len(seq) THEN Len(seq) ELSE start)
    IN  SubSeq(seq, from + 1, Len(seq))

\* seq[::-1]
Reversed(seq) == [k \in 1 .. Len(seq) |-> seq[Len(seq) - k + 1]]

get_recent_operations(ops, limit) == Reversed(PySliceFrom(ops, 0 - limit))

(***************************************************************************)
(* FileManager.get_backup_size: os.walk(self.backup_dir) visits the backup *)
(* root and every directory below it and counts each file it lists.        *)
(* operations.json lies in the backup root itself (__init__, line 23), so  *)
(* the walk lists it once it has been written.  File sizes are not         *)
(* modelled; the returned dict is cut down to file_count.                  *)
(***************************************************************************)
get_backup_size(w) ==
    LET in_namespaces == Cardinality({<<d, l>> \in (DOMAIN w.backup) \X Leaves :
                                         w.backup[d][l] # NoFile})
        in_root == IF w.operations_log.exists THEN 1 ELSE 0
    IN  [file_count |-> in_root + in_namespaces]

(***************************************************************************)
(* FileManager.clean_old_backups.  The clock reading is t seconds plus a   *)
(* fraction of a second; onSecond says that the fraction is zero.  A       *)
(* namespace is removed when its parsed time is strictly below             *)
(* reading - days * 86400.                                                 *)
(***************************************************************************)
\* Mutant: the comparison with the cutoff is <= instead of <.
OlderThanCutoff_Inclusive(name, days, t, onSecond) ==
    Strptime(name) <= t - days * SecondsPerDay

\* Mutant: the clock reading is cut to its whole second before the comparison.
OlderThanCutoff_WholeSeconds(name, days, t, onSecond) ==
    Strptime(name) < t - days * SecondsPerDay

OlderThanCutoff(name, days, t, onSecond) ==
    LET cutoff == t - days * SecondsPerDay
    IN  \/ Strptime(name) < cutoff
        \/ Strptime(name) = cutoff /\ ~onSecond

clean_old_backups(w, days, t, onSecond) ==
    LET removed == {d \in DOMAIN w.backup :
                      /\ IsDigits(d)
                      /\ ParsesAsTimestamp(d)
                      /\ OlderThanCutoff(d, days, t, onSecond)}
        kept == DOMAIN w.backup \ removed
        cleaned == [w EXCEPT !.backup = [d \in kept |-> w.backup[d]]]
    IN  Out(cleaned, [success |-> TRUE, removed_count |-> Cardinality(removed),
                    removed |-> removed])

(***************************************************************************)
(* FileManager.delete_multiple: delete_file once per path, in order.       *)
(* oks[k] = <<mkdirOk, moveOk, saveOk>> of the k-th path's delete_file.    *)
(* Each entry of results is {"file": file_path, **result}.  An exception   *)
(* that leaves delete_file leaves the loop and delete_multiple with it:    *)
(* DeleteEach then yields the exception in place of the list of results.   *)
(***************************************************************************)
RECURSIVE DeleteEach(_, _, _, _, _)
DeleteEach(w, file_paths, t, oks, k) ==
    IF k > Len(file_paths) THEN [w |-> w, ret |-> <<>>, raised |-> FALSE]
    ELSE LET one == delete_file(w, file_paths[k], t, oks[k][1], oks[k][2], oks[k][3])
             rest == DeleteEach(one.w, file_paths, t, oks, k + 1)
         IN  IF IsRaised(one.ret) THEN [w |-> one.w, ret |-> one.ret, raised |-> TRUE]
             ELSE IF rest.raised THEN rest
             ELSE [rest EXCEPT !.ret = <<("file" :> file_paths[k]) @@ one.ret>> \o @]

delete_multiple(w, file_paths, t, oks) ==
    LET timestamp == Strftime(t)
        batch_id == Len(w.operations)
        each == DeleteEach(w, file_paths, t, oks, 1)
    IN  IF each.raised THEN Out(each.w, each.ret)
        ELSE Out(each.w, [batch_id |-> batch_id, timestamp |-> timestamp,
                          total |-> Len(file_paths), results |-> each.ret])

(***************************************************************************)
(* plex_scanner.py, PlexScanner._get_file_hash.  hashlib.md5 is modelled as *)
(* a digest without collisions: the state of the hash object is the bytes  *)
(* fed to it so far, in order, and hexdigest() names that byte string.     *)
(* The empty string "" that stands for an unreadable file is NoHash.       *)
(***************************************************************************)
NoHash == <<>>

\* hash_md5.update(chunk)
Md5Update(state, chunk) == state \o chunk

\* hash_md5.hexdigest()
HexDigest(state) == <<"md5", state>>

\* A call that returned v, and a call left by an exception.
Returned(v) == [raised |-> FALSE, ret |-> v]

Thrown == [raised |-> TRUE, ret |-> NoHash]

\* f.read(size) at offset pos: the next size bytes, fewer at the end of the
\* file, none after it
Read(bytes, pos, size) ==
    [k \in 1 .. (IF Len(bytes) - pos < size THEN Len(bytes) - pos ELSE size) |->
        bytes[pos + k]]

\* Mutant: the loop stops after the first chunk.
HashChunks_FirstChunkOnly(bytes, pos, size, state) ==
    Md5Update(state, Read(bytes, pos, size))

\* for chunk in iter(lambda: f.read(size), b""): hash_md5.update(chunk)
RECURSIVE HashChunks(_, _, _, _)
HashChunks(bytes, pos, size, state) ==
    LET chunk == Read(bytes, pos, size)
    IN  IF chunk = <<>> THEN state
        ELSE HashChunks(bytes, pos + Len(chunk), size, Md5Update(state, chunk))

\* The body of the try block, reading size bytes at a time.  A file is
\* [bytes, readable]; open() or a read of a file that is not readable raises.
HashInChunks(file, size) ==
    IF ~file.readable THEN Thrown
    ELSE Returned(HexDigest(HashChunks(file.bytes, 0, size, <<>>)))

\* Mutant: the exception of the try block leaves the method.
ExceptReturnsEmpty_Propagates(outcome) == outcome

\* except Exception: return ""
ExceptReturnsEmpty(outcome) == IF outcome.raised THEN Returned(NoHash) ELSE outcome

_get_file_hash(file) == ExceptReturnsEmpty(HashInChunks(file, ChunkSize))

(***************************************************************************)
(* PlexScanner.get_artwork_files, the loop over the files of the artwork   *)
(* folders.  A folder is the sequence iterdir() yields, of entries         *)
(* [image, stat, file]: image is the test of line 443 (a regular file with *)
(* an image suffix), stat whether file_path.stat() goes through.  The path *)
(* of a file_info is <<folder, place in the folder>>.  An exception inside *)
(* the loop is caught per folder (468-470): the file_infos appended before *)
(* it stay and the scan goes on with the next folder.                      *)
(***************************************************************************)
RECURSIVE ScanFolder(_, _, _, _)
ScanFolder(folder, name, k, listed) ==
    IF k > Len(folder) THEN listed
    ELSE IF ~folder[k].image THEN ScanFolder(folder, name, k + 1, listed)
    ELSE IF ~folder[k].stat THEN listed
    ELSE LET hashed == _get_file_hash(folder[k].file)
         IN  IF hashed.raised THEN listed
             ELSE ScanFolder(folder, name, k + 1,
                             Append(listed, [path |-> <<name, k>>, hash |-> hashed.ret]))

get_artwork_files(folders) ==
    [artwork |-> [f \in DOMAIN folders |-> ScanFolder(folders[f], f, 1, <<>>)]]

(***************************************************************************)
(* PlexScanner.find_duplicates.  items is a sequence of items, the artwork *)
(* of an item a sequence of file lists (one per artwork type, in the order *)
(* of the dict), a file_info a record [path, hash].  The three nested for  *)
(* loops visit the file_infos in the order of Discovered(items).           *)
(***************************************************************************)
RECURSIVE Concat(_)
Concat(seqs) == IF seqs = <<>> THEN <<>> ELSE Head(seqs) \o Concat(Tail(seqs))

Discovered(items) == Concat([k \in 1 .. Len(items) |-> Concat(items[k].artwork)])

\* Mutant: every hash counts as a usable hash, the empty one too.
Truthy_Always(file_hash) == TRUE

\* "if file_hash": the empty string is false
Truthy(file_hash) == file_hash # NoHash

\* Mutant: a file_info is never remembered in hash_map.
DuplicateStep_NoStore(state, file_info) == state

\* Mutant: a matched file_info also replaces the remembered one.
DuplicateStep_LastSeen(state, file_info) ==
    LET file_hash == file_info.hash
        stored == [h \in DOMAIN state.hash_map \cup {file_hash} |->
                      IF h = file_hash THEN file_info ELSE state.hash_map[h]]
    IN  IF Truthy(file_hash) /\ file_hash \in DOMAIN state.hash_map
          THEN [hash_map |-> stored,
                duplicates |-> Append(state.duplicates,
                                      <<state.hash_map[file_hash], file_info>>)]
          ELSE [state EXCEPT !.hash_map = stored]

\* The body of the innermost loop, on state [hash_map, duplicates].
DuplicateStep(state, file_info) ==
    LET file_hash == file_info.hash
    IN  IF Truthy(file_hash) /\ file_hash \in DOMAIN state.hash_map
          THEN [state EXCEPT !.duplicates =
                    Append(@, <<state.hash_map[file_hash], file_info>>)]
          ELSE [state EXCEPT !.hash_map =
                    [h \in DOMAIN state.hash_map \cup {file_hash} |->
                        IF h = file_hash THEN file_info ELSE state.hash_map[h]]]

RECURSIVE DuplicateLoop(_, _, _)
DuplicateLoop(state, file_infos, k) ==
    IF k > Len(file_infos) THEN state
    ELSE DuplicateLoop(DuplicateStep(state, file_infos[k]), file_infos, k + 1)

find_duplicates(items) ==
    DuplicateLoop([hash_map |-> [h \in {} |-> <<>>], duplicates |-> <<>>],
                  Discovered(items), 1).duplicates

(***************************************************************************)
(* plex_scanner_api.py, PlexScannerAPI.delete_artwork from line 657 on:    *)
(* the artwork files found for the item (a non-empty list, 645-651) are    *)
(* deleted through a FileManager constructed for this call on the backup   *)
(* directory of config.json, which app.py sets to the directory of its own *)
(* module-level FileManager (app.py:49).  The new instance loads its list  *)
(* of Operations from operations.json; w.operations, the list of the       *)
(* module-level instance, is neither read nor written.                     *)
(***************************************************************************)
PlexScannerAPI_delete_artwork(w, artwork_files, t, oks) ==
    LET file_manager == [w EXCEPT !.operations = LoadOperations(w.operations_log)]
        each == DeleteEach(file_manager, artwork_files, t, oks, 1)
        after == [each.w EXCEPT !.operations = w.operations]
        Deleted(r) == r.success
        NotDeleted(r) == ~r.success
        deleted == SelectSeq(each.ret, Deleted)
        failed == SelectSeq(each.ret, NotDeleted)
    IN  IF each.raised
          THEN Out(after, [success |-> FALSE, error |-> "Failed to delete artwork"])
        ELSE IF deleted # <<>>
          THEN Out(after, [success |-> TRUE, deleted_count |-> Len(deleted),
                           deleted_files |-> [k \in DOMAIN deleted |-> deleted[k].file],
                           failed |-> [k \in DOMAIN failed |->
                                          [file |-> failed[k].file,
                                           error |-> failed[k].error]]])
        ELSE Out(after, [success |-> FALSE, error |-> "All file deletions failed",
                         failed |-> [k \in DOMAIN failed |->
                                        [file |-> failed[k].file,
                                         error |-> failed[k].error]]])

(***************************************************************************)
(* app.py, delete_artwork: the handler of POST /api/delete.  The returned  *)
(* dict is the JSON body of the response.                                  *)
(***************************************************************************)
delete_artwork(w, file_paths, t, oks) ==
    IF Len(file_paths) = 0 THEN Out(w, [error |-> "No files specified"])
    ELSE IF Len(file_paths) = 1
      THEN delete_file(w, file_paths[1], t, oks[1][1], oks[1][2], oks[1][3])
    ELSE delete_multiple(w, file_paths, t, oks)

(***************************************************************************)
(* Request threads.  app.run serves each request on its own thread and all *)
(* handlers call the one module-level FileManager without a lock, so the   *)
(* statements of two calls interleave.  A thread is at a statement (pc) of *)
(* the call it runs; file_path, timestamp and operation are the call's     *)
(* local variables, ret the dict it returned.                              *)
(***************************************************************************)
Threads == {"t1", "t2"}

Idle == [pc |-> "idle", file_path |-> <<>>, operation_id |-> 0, timestamp |-> <<>>,
         content |-> NoFile, operation |-> <<>>, ret |-> <<>>]

(***************************************************************************)
(* The state machine.                                                      *)
(***************************************************************************)
Init ==
    /\ fs = [p \in Paths \cup Directories |->
                IF p \in Directories THEN Directory
                ELSE IF p = <<"lib1", "poster.jpg">> THEN "c1" ELSE "c2"]
    /\ backup = [d \in {} |-> EmptyDir]
    /\ operations = <<>>
    /\ operations_log = [exists |-> FALSE, data |-> <<>>]
    /\ now = 0
    /\ result = [call |-> "__init__", args |-> <<>>, ret |-> <<>>]
    /\ deleted_content = <<>>
    /\ issued = {}
    /\ reused = FALSE
    /\ swept = {}
    /\ threads = [t \in Threads |-> Idle]

Succeeded(ret) == "success" \in DOMAIN ret /\ ret.success

Failed(ret, e) == "error" \in DOMAIN ret /\ ret.error = e

\* The world after a call becomes the state.
Becomes(w) ==
    /\ fs' = w.fs
    /\ backup' = w.backup
    /\ operations' = w.operations
    /\ operations_log' = w.operations_log

\* History of a call that may append to the log: the content each appended
\* Operation relocated, and the ids handed to the caller with success.
Recorded(w, handed) ==
    /\ deleted_content' = deleted_content \o
           [k \in 1 .. (Len(w.operations) - Len(operations)) |->
                fs[w.operations[Len(operations) + k].original_path]]
    /\ issued' = issued \cup handed
    /\ reused' = (reused \/ handed \cap issued # {})
    /\ UNCHANGED swept

NothingRecorded == UNCHANGED <<deleted_content, issued, reused>>

DeleteFile(file_path, mkdirOk, moveOk, saveOk) ==
    /\ Len(operations) < MaxOps
    /\ LET out == delete_file(World, file_path, now, mkdirOk, moveOk, saveOk)
       IN  /\ Becomes(out.w)
           /\ result' = [call |-> "delete_file", args |-> <<file_path>>, ret |-> out.ret]
           /\ Recorded(out.w, IF Succeeded(out.ret) THEN {out.ret.operation_id} ELSE {})
    /\ UNCHANGED <<now, threads>>

\* The path lists a batch is called with: none, one or two paths.
Batches ==
    {<<>>} \cup {<<p>> : p \in Paths} \cup {<<p, q>> : p \in Paths, q \in Paths}

DeleteMultiple(file_paths, oks) ==
    /\ Len(operations) + Len(file_paths) <= MaxOps
    /\ LET out == delete_multiple(World, file_paths, now, oks)
           done == IF IsRaised(out.ret) THEN {}
                   ELSE {k \in 1 .. Len(file_paths) : Succeeded(out.ret.results[k])}
       IN  /\ Becomes(out.w)
           /\ result' = [call |-> "delete_multiple", args |-> <<file_paths>>, ret |-> out.ret]
           /\ Recorded(out.w, {out.ret.results[k].operation_id : k \in done})
    /\ UNCHANGED <<now, threads>>

\* The ids a delete_file or delete_multiple return hands out with success.
Handed(ret) ==
    IF IsRaised(ret) THEN {}
    ELSE IF "results" \in DOMAIN ret
      THEN {ret.results[k].operation_id :
                k \in {j \in DOMAIN ret.results : Succeeded(ret.results[j])}}
    ELSE IF Succeeded(ret) THEN {ret.operation_id}
    ELSE {}

DeleteArtwork(file_paths, oks) ==
    /\ Len(operations) + Len(file_paths) <= MaxOps
    /\ LET out == delete_artwork(World, file_paths, now, oks)
       IN  /\ Becomes(out.w)
           /\ result' = [call |-> "delete_artwork", args |-> <<file_paths>>, ret |-> out.ret]
           /\ Recorded(out.w, Handed(out.ret))
    /\ UNCHANGED <<now, threads>>

UndoOperation(operation_id, moveOk, saveOk) ==
    /\ LET out == undo_operation(World, operation_id, moveOk, saveOk)
       IN  /\ Becomes(out.w)
           /\ result' = [call |-> "undo_operation", args |-> <<operation_id>>, ret |-> out.ret]
    /\ NothingRecorded
    /\ UNCHANGED <<now, threads, swept>>

PermanentlyDeleteBackup(operation_id, unlinkOk, saveOk) ==
    /\ LET out == permanently_delete_backup(World, operation_id, unlinkOk, saveOk)
       IN  /\ Becomes(out.w)
           /\ result' = [call |-> "permanently_delete_backup", args |-> <<operation_id>>,
                         ret |-> out.ret]
    /\ NothingRecorded
    /\ UNCHANGED <<now, threads, swept>>

CleanOldBackups(days, onSecond) ==
    /\ LET out == clean_old_backups(World, days, now, onSecond)
       IN  /\ Becomes(out.w)
           /\ result' = [call |-> "clean_old_backups", args |-> <<days>>, ret |-> out.ret]
           /\ swept' = swept \cup
                  {i \in DOMAIN operations :
                      /\ operations[i].can_undo
                      /\ operations[i].backup_path[1] \in out.ret.removed}
    /\ NothingRecorded
    /\ UNCHANGED <<now, threads>>

GetRecentOperations(limit) ==
    /\ result' = [call |-> "get_recent_operations", args |-> <<limit>>,
                  ret |-> get_recent_operations(operations, limit)]
    /\ UNCHANGED <<fs, backup, operations, operations_log, now,
                   deleted_content, issued, reused, swept, threads>>

\* The hashes file_infos carry: none (unreadable file) or the digest of one
\* of two contents.
EntryHashes == {NoHash, HexDigest(<<0>>), HexDigest(<<1>>)}

\* The file_infos of a scan in discovery order, one per hash of the sequence;
\* the path of a file_info is its place in that order.
FileInfos(hashes) == [k \in 1 .. Len(hashes) |-> [path |-> k, hash |-> hashes[k]]]

\* The ways the file_infos are spread over items and artwork types: all in
\* one file list, one item per file_info, or the first file_info under one
\* artwork type and the rest under another type of the same item.
Shapes == {"one list", "one item each", "two types"}

Arrange(file_infos, shape) ==
    IF shape = "one list" THEN <<[artwork |-> <<file_infos>>]>>
    ELSE IF shape = "one item each"
      THEN [k \in 1 .. Len(file_infos) |-> [artwork |-> <<<<file_infos[k]>>>>]]
    ELSE IF file_infos = <<>> THEN <<[artwork |-> <<<<>>, <<>>>>]>>
    ELSE <<[artwork |-> <<<<Head(file_infos)>>, Tail(file_infos)>>]>>

ItemLists ==
    {Arrange(FileInfos(hashes), shape) :
        hashes \in UNION {[1 .. n -> EntryHashes] : n \in 0 .. MaxEntries},
        shape \in Shapes}

FileManagerUnchanged ==
    UNCHANGED <<fs, backup, operations, operations_log, now,
                deleted_content, issued, reused, swept, threads>>

FindDuplicates(items) ==
    /\ result' = [call |-> "find_duplicates", args |-> <<items>>,
                  ret |-> find_duplicates(items)]
    /\ FileManagerUnchanged

Bytes == {0, 1}

\* The files _get_file_hash is applied to: every byte string up to MaxLen,
\* readable or not.
HashFiles ==
    [bytes : UNION {[1 .. n -> Bytes] : n \in 0 .. MaxLen}, readable : BOOLEAN]

GetFileHash(file) ==
    /\ result' = [call |-> "_get_file_hash", args |-> <<file>>,
                  ret |-> _get_file_hash(file)]
    /\ FileManagerUnchanged

\* The entries of a scanned folder: an image that can be read, with one of two
\* contents, an image that cannot be read, an entry that is no image file,
\* and an image whose stat() raises.
ListedEntries ==
    {[image |-> TRUE, stat |-> TRUE, file |-> [bytes |-> <<0>>, readable |-> TRUE]],
     [image |-> TRUE, stat |-> TRUE, file |-> [bytes |-> <<1, 0, 1>>, readable |-> TRUE]],
     [image |-> TRUE, stat |-> TRUE, file |-> [bytes |-> <<0>>, readable |-> FALSE]],
     [image |-> FALSE, stat |-> TRUE, file |-> [bytes |-> <<0>>, readable |-> TRUE]],
     [image |-> TRUE, stat |-> FALSE, file |-> [bytes |-> <<0>>, readable |-> TRUE]]}

\* A first artwork folder of up to MaxListed entries and a second one that is
\* empty or holds one readable image.
ScannedFolders ==
    {<<first, second>> :
        first \in UNION {[1 .. n -> ListedEntries] : n \in 0 .. MaxListed},
        second \in {<<>>, <<[image |-> TRUE, stat |-> TRUE,
                             file |-> [bytes |-> <<0>>, readable |-> TRUE]]>>}}

GetArtworkFiles(folders) ==
    /\ result' = [call |-> "get_artwork_files", args |-> <<folders>>,
                  ret |-> get_artwork_files(folders)]
    /\ FileManagerUnchanged

\* The artwork files of an item: one or two paths.
ArtworkFiles == {<<p>> : p \in Paths} \cup {<<p, q>> : p \in Paths, q \in Paths}

ScannerDeleteArtwork(artwork_files, oks) ==
    /\ Len(LoadOperations(operations_log)) + Len(artwork_files) <= MaxOps
    \* the files were listed from the folders of the item: all exist, none twice
    /\ \A k \in DOMAIN artwork_files : SourceExists(World, artwork_files[k])
    /\ \A j, k \in DOMAIN artwork_files : artwork_files[j] = artwork_files[k] => j = k
    /\ LET out == PlexScannerAPI_delete_artwork(World, artwork_files, now, oks)
       IN  /\ Becomes(out.w)
           /\ result' = [call |-> "PlexScannerAPI.delete_artwork",
                         args |-> <<artwork_files>>, ret |-> out.ret]
    /\ NothingRecorded
    /\ UNCHANGED <<now, threads, swept>>

GetBackupSize ==
    /\ result' = [call |-> "get_backup_size", args |-> <<>>,
                  ret |-> get_backup_size(World)]
    /\ FileManagerUnchanged

\* The process ends and a new FileManager is constructed on the same backup
\* directory: __init__ reloads self.operations from operations.json.
Restart ==
    /\ operations' = LoadOperations(operations_log)
    /\ deleted_content' = SubSeq(deleted_content, 1, Len(operations'))
    /\ result' = [call |-> "__init__", args |-> <<>>, ret |-> <<>>]
    /\ swept' = swept \cap DOMAIN operations'
    /\ UNCHANGED <<fs, backup, operations_log, now, issued, reused, threads>>

\* Time passes into the next second.
TickSecond ==
    /\ now < MaxSec
    /\ now' = now + 1
    /\ UNCHANGED <<fs, backup, operations, operations_log, result,
                   deleted_content, issued, reused, swept, threads>>

\* A day passes.
TickDay ==
    /\ now + SecondsPerDay <= MaxDay * SecondsPerDay + MaxSec
    /\ now' = now + SecondsPerDay
    /\ UNCHANGED <<fs, backup, operations, operations_log, result,
                   deleted_content, issued, reused, swept, threads>>

\* Outside the program: a directory that is no namespace appears in the
\* backup root.
MakeDirectory(name) ==
    /\ name \notin DOMAIN backup
    /\ backup' = Mkdir(backup, name)
    /\ UNCHANGED <<fs, operations, operations_log, now, result,
                   deleted_content, issued, reused, swept, threads>>

\* Outside the program: a directory of artwork is removed with all that is
\* in it (the item was removed from the library).
RemoveDirectory(d) ==
    /\ fs[d] = Directory
    /\ fs' = [x \in DOMAIN fs |->
                 IF x = d \/ (x \in Paths /\ Parent(x) = d) THEN NoFile ELSE fs[x]]
    /\ UNCHANGED <<backup, operations, operations_log, now, result,
                   deleted_content, issued, reused, swept, threads>>

\* Outside the program: operations.json is cut down to its first n entries.
TruncateLog(n) ==
    /\ operations_log.exists
    /\ n < Len(operations_log.data)
    /\ operations_log' = [operations_log EXCEPT !.data = SubSeq(@, 1, n)]
    /\ UNCHANGED <<fs, backup, operations, now, result, deleted_content, issued, reused,
                   swept, threads>>

(***************************************************************************)
(* delete_file, one statement at a time, on thread t.                      *)
(***************************************************************************)
At(t, pc) == threads[t].pc = pc

Goes(t, pc) == threads' = [threads EXCEPT ![t].pc = pc]

Returns(t, ret) ==
    /\ threads' = [threads EXCEPT ![t].pc = "done", ![t].ret = ret]
    /\ result' = [call |-> "delete_file", args |-> <<threads[t].file_path>>, ret |-> ret]

\* A request arrives and its handler calls delete_file(file_path).
ThreadCall(t, file_path) ==
    /\ At(t, "idle")
    /\ threads' = [threads EXCEPT ![t].pc = "exists", ![t].file_path = file_path]
    /\ UNCHANGED <<fs, backup, operations, operations_log, now, result,
                   deleted_content, issued, reused, swept>>

\* if not source.exists(): return {"success": False, "error": "File does not exist"}
ThreadExists(t) ==
    /\ At(t, "exists")
    /\ IF SourceExists(World, threads[t].file_path)
         THEN Goes(t, "mkdir") /\ UNCHANGED result
         ELSE Returns(t, SourceMissing)
    /\ UNCHANGED <<fs, backup, operations, operations_log, now,
                   deleted_content, issued, reused, swept>>

\* timestamp = datetime.now().strftime(...); backup_folder.mkdir(...)
ThreadMkdir(t) ==
    /\ At(t, "mkdir")
    /\ backup' = Mkdir(backup, Strftime(now))
    /\ threads' = [threads EXCEPT ![t].pc = "move", ![t].timestamp = Strftime(now)]
    /\ UNCHANGED <<fs, operations, operations_log, now, result,
                   deleted_content, issued, reused, swept>>

\* shutil.move(str(source), str(destination)); it raises when the source is gone
ThreadMove(t) ==
    LET source == threads[t].file_path
        backup_folder == threads[t].timestamp
    IN  /\ At(t, "move")
        /\ IF SourceExists(World, source)
             THEN /\ fs' = [fs EXCEPT ![source] = NoFile]
                  /\ backup' = [backup EXCEPT ![backup_folder][Name(source)] = fs[source]]
                  /\ threads' = [threads EXCEPT ![t].pc = "operation",
                                                ![t].content = fs[source]]
                  /\ UNCHANGED result
             ELSE /\ Returns(t, IOError)
                  /\ UNCHANGED <<fs, backup>>
        /\ UNCHANGED <<operations, operations_log, now, deleted_content, issued, reused, swept>>

\* operation = {"id": len(self.operations), ...}
ThreadOperation(t) ==
    LET source == threads[t].file_path
        destination == <<threads[t].timestamp, Name(source)>>
    IN  /\ At(t, "operation")
        /\ threads' = [threads EXCEPT
               ![t].pc = "append",
               ![t].operation = NewOperation(operations, threads[t].timestamp,
                                             source, destination)]
        /\ UNCHANGED <<fs, backup, operations, operations_log, now, result,
                       deleted_content, issued, reused, swept>>

\* self.operations.append(operation)
ThreadAppend(t) ==
    /\ At(t, "append")
    /\ operations' = Append(operations, threads[t].operation)
    /\ deleted_content' = Append(deleted_content, threads[t].content)
    /\ Goes(t, "save")
    /\ UNCHANGED <<fs, backup, operations_log, now, result, issued, reused, swept>>

\* self._save_operations()
ThreadSave(t) ==
    /\ At(t, "save")
    /\ operations_log' = SaveOperations(operations)
    /\ Goes(t, "return")
    /\ UNCHANGED <<fs, backup, operations, now, result, deleted_content, issued, reused, swept>>

\* return {"success": True, "operation_id": operation["id"], "backup_path": ...}
ThreadReturn(t) ==
    LET operation == threads[t].operation
    IN  /\ At(t, "return")
        /\ Returns(t, [success |-> TRUE, operation_id |-> operation.id,
                       backup_path |-> operation.backup_path])
        /\ issued' = issued \cup {operation.id}
        /\ reused' = (reused \/ operation.id \in issued)
        /\ UNCHANGED <<fs, backup, operations, operations_log, now, deleted_content, swept>>

ThreadStep(t) ==
    \/ \E file_path \in Paths : ThreadCall(t, file_path)
    \/ ThreadExists(t)
    \/ ThreadMkdir(t)
    \/ ThreadMove(t)
    \/ ThreadOperation(t)
    \/ ThreadAppend(t)
    \/ ThreadSave(t)
    \/ ThreadReturn(t)

(***************************************************************************)
(* undo_operation, one statement at a time, on thread t.  shutil.move is   *)
(* os.rename, one step, when the backup root and the artwork are on the    *)
(* same filesystem; otherwise it is a copy followed by an unlink of the    *)
(* source, two steps.  Either raises when the backup file is gone.         *)
(***************************************************************************)
UndoReturns(t, ret) ==
    /\ threads' = [threads EXCEPT ![t].pc = "done", ![t].ret = ret]
    /\ result' = [call |-> "undo_operation", args |-> <<threads[t].operation_id>>,
                  ret |-> ret]

\* The Operation thread t has read from self.operations[operation_id].
Undoing(t) == operations[threads[t].operation_id + 1]

\* A request arrives and its handler calls undo_operation(operation_id).
ThreadCallUndo(t, operation_id) ==
    /\ At(t, "idle")
    /\ threads' = [threads EXCEPT ![t].pc = "found", ![t].operation_id = operation_id]
    /\ UNCHANGED <<fs, backup, operations, operations_log, now, result,
                   deleted_content, issued, reused, swept>>

\* if operation_id >= len(self.operations): return "Operation not found"
ThreadUndoFound(t) ==
    /\ At(t, "found")
    /\ IF NotFoundCheck(operations, threads[t].operation_id)
         THEN UndoReturns(t, NotFound)
         ELSE Goes(t, "can_undo") /\ UNCHANGED result
    /\ UNCHANGED <<fs, backup, operations, operations_log, now,
                   deleted_content, issued, reused, swept>>

\* if not operation.get("can_undo", False): return "Operation cannot be undone"
ThreadUndoCanUndo(t) ==
    /\ At(t, "can_undo")
    /\ IF CanUndo(Undoing(t))
         THEN Goes(t, "backup") /\ UNCHANGED result
         ELSE UndoReturns(t, [success |-> FALSE, error |-> "Operation cannot be undone"])
    /\ UNCHANGED <<fs, backup, operations, operations_log, now,
                   deleted_content, issued, reused, swept>>

\* if not backup_path.exists(): return "Backup file not found"
ThreadUndoBackup(t) ==
    /\ At(t, "backup")
    /\ IF BackupExists(World, Undoing(t).backup_path)
         THEN Goes(t, "move") /\ UNCHANGED result
         ELSE UndoReturns(t, BackupMissing)
    /\ UNCHANGED <<fs, backup, operations, operations_log, now,
                   deleted_content, issued, reused, swept>>

\* shutil.move(str(backup_path), str(original_path)) as one rename
ThreadUndoRename(t) ==
    LET backup_path == Undoing(t).backup_path
        original_path == Undoing(t).original_path
    IN  /\ At(t, "move")
        /\ IF BackupExists(World, backup_path)
             THEN /\ fs' = [MkdirParents(fs, original_path) EXCEPT
                                ![original_path] = backup[backup_path[1]][backup_path[2]]]
                  /\ backup' = [backup EXCEPT ![backup_path[1]][backup_path[2]] = NoFile]
                  /\ threads' = [threads EXCEPT
                         ![t].pc = "flags",
                         ![t].content = backup[backup_path[1]][backup_path[2]]]
                  /\ UNCHANGED result
             ELSE /\ UndoReturns(t, IOError)
                  /\ UNCHANGED <<fs, backup>>
        /\ UNCHANGED <<operations, operations_log, now, deleted_content, issued, reused, swept>>

\* shutil.move across filesystems, first half: the copy to original_path
ThreadUndoCopy(t) ==
    LET backup_path == Undoing(t).backup_path
        original_path == Undoing(t).original_path
    IN  /\ At(t, "move")
        /\ IF BackupExists(World, backup_path)
             THEN /\ fs' = [MkdirParents(fs, original_path) EXCEPT
                                ![original_path] = backup[backup_path[1]][backup_path[2]]]
                  /\ threads' = [threads EXCEPT
                         ![t].pc = "unlink",
                         ![t].content = backup[backup_path[1]][backup_path[2]]]
                  /\ UNCHANGED result
             ELSE /\ UndoReturns(t, IOError)
                  /\ UNCHANGED fs
        /\ UNCHANGED <<backup, operations, operations_log, now,
                       deleted_content, issued, reused, swept>>

\* Mutant: the unlink goes through when the backup file is already gone.
ThreadUndoUnlink_MissingOk(t) ==
    LET backup_path == Undoing(t).backup_path
    IN  /\ At(t, "unlink")
        /\ backup' = [backup EXCEPT ![backup_path[1]][backup_path[2]] = NoFile]
        /\ Goes(t, "flags")
        /\ UNCHANGED <<fs, operations, operations_log, now, result,
                       deleted_content, issued, reused, swept>>

\* shutil.move across filesystems, second half: os.unlink of the backup file
ThreadUndoUnlink(t) ==
    LET backup_path == Undoing(t).backup_path
    IN  /\ At(t, "unlink")
        /\ IF BackupExists(World, backup_path)
             THEN /\ backup' = [backup EXCEPT ![backup_path[1]][backup_path[2]] = NoFile]
                  /\ Goes(t, "flags")
                  /\ UNCHANGED result
             ELSE /\ UndoReturns(t, IOError)
                  /\ UNCHANGED backup
        /\ UNCHANGED <<fs, operations, operations_log, now,
                       deleted_content, issued, reused, swept>>

\* operation["can_undo"] = False; operation["undone_at"] = ...
ThreadUndoFlags(t) ==
    /\ At(t, "flags")
    /\ operations' = [operations EXCEPT ![threads[t].operation_id + 1] = MarkUndone(@)]
    /\ Goes(t, "save undo")
    /\ UNCHANGED <<fs, backup, operations_log, now, result,
                   deleted_content, issued, reused, swept>>

\* self._save_operations()
ThreadUndoSave(t) ==
    /\ At(t, "save undo")
    /\ operations_log' = SaveOperations(operations)
    /\ Goes(t, "restored")
    /\ UNCHANGED <<fs, backup, operations, now, result, deleted_content, issued, reused, swept>>

\* return {"success": True, "restored_path": str(original_path)}
ThreadUndoReturn(t) ==
    /\ At(t, "restored")
    /\ UndoReturns(t, [success |-> TRUE, restored_path |-> Undoing(t).original_path])
    /\ UNCHANGED <<fs, backup, operations, operations_log, now,
                   deleted_content, issued, reused, swept>>

ThreadUndoStep(t) ==
    \/ \E operation_id \in 0 .. MaxOps : ThreadCallUndo(t, operation_id)
    \/ ThreadUndoFound(t)
    \/ ThreadUndoCanUndo(t)
    \/ ThreadUndoBackup(t)
    \/ ThreadUndoRename(t)
    \/ ThreadUndoCopy(t)
    \/ ThreadUndoUnlink(t)
    \/ ThreadUndoFlags(t)
    \/ ThreadUndoSave(t)
    \/ ThreadUndoReturn(t)

\* The calls of the engine; IO is the set of outcomes its I/O calls may have.
Deletes(IO) ==
    \E p \in Paths, mkdirOk \in IO, moveOk \in IO, saveOk \in IO :
        DeleteFile(p, mkdirOk, moveOk, saveOk)

BatchDeletes(IO) ==
    \E ps \in Batches : \E oks \in [1 .. Len(ps) -> IO \X IO \X IO] : DeleteMultiple(ps, oks)

ApiDeletes(IO) ==
    \E ps \in Batches : \E oks \in [1 .. Len(ps) -> IO \X IO \X IO] : DeleteArtwork(ps, oks)

Undos(IO) ==
    \E id \in OpIds, moveOk \in IO, saveOk \in IO : UndoOperation(id, moveOk, saveOk)

Purges(IO) ==
    \E id \in OpIds, unlinkOk \in IO, saveOk \in IO :
        PermanentlyDeleteBackup(id, unlinkOk, saveOk)

Calls(IO) == Deletes(IO) \/ BatchDeletes(IO) \/ Undos(IO) \/ Purges(IO)

Sweep == \E days \in Days, onSecond \in BOOLEAN : CleanOldBackups(days, onSecond)

Environment == Restart \/ TickSecond

\* The engine on a filesystem whose I/O calls all go through.
Next == Calls({TRUE}) \/ Sweep \/ Environment

Spec == Init /\ [][Next]_vars

\* The engine without the retention sweep.
NextNoSweep == Calls({TRUE}) \/ Environment

SpecNoSweep == Init /\ [][NextNoSweep]_vars

\* Deletes and restarts with operations.json truncated from outside.
NextTruncate ==
    \/ Deletes({TRUE})
    \/ Environment
    \/ \E n \in 0 .. MaxOps : TruncateLog(n)

SpecTruncate == Init /\ [][NextTruncate]_vars

\* The single-file calls on a filesystem whose I/O calls may raise, with restarts.
NextFaults == Deletes(BOOLEAN) \/ Undos(BOOLEAN) \/ Purges(BOOLEAN) \/ Restart

SpecFaults == Init /\ [][NextFaults]_vars

\* Deletes and retention sweeps over days, with foreign directories in the
\* backup root.
NextSweep ==
    \/ Deletes({TRUE})
    \/ Sweep
    \/ TickSecond
    \/ TickDay
    \/ \E name \in ForeignNames : MakeDirectory(name)

SpecSweep == Init /\ [][NextSweep]_vars

\* The duplicate detector on the item lists of ItemLists.
NextDuplicates == \E items \in ItemLists : FindDuplicates(items)

SpecDuplicates == Init /\ [][NextDuplicates]_vars

\* The hash of every file of HashFiles.
NextHash == \E file \in HashFiles : GetFileHash(file)

SpecHash == Init /\ [][NextHash]_vars

\* Scans of the folders of ScannedFolders.
NextScan == \E folders \in ScannedFolders : GetArtworkFiles(folders)

SpecScan == Init /\ [][NextScan]_vars

\* Deletes, and listings of the log with a limit from Limits.
NextRecent ==
    \/ Deletes({TRUE})
    \/ \E limit \in Limits : GetRecentOperations(limit)
    \/ TickSecond

SpecRecent == Init /\ [][NextRecent]_vars

\* Deletes, then undos and purges whose I/O calls may raise, and sweeps.
NextLog ==
    \/ Deletes({TRUE})
    \/ Undos(BOOLEAN)
    \/ Purges(BOOLEAN)
    \/ Sweep

SpecLog == Init /\ [][NextLog]_vars

\* Deletes, undos and purges, and readings of the backup usage.
NextUsage ==
    \/ Deletes({TRUE})
    \/ Undos({TRUE})
    \/ Purges({TRUE})
    \/ GetBackupSize

SpecUsage == Init /\ [][NextUsage]_vars

\* A delete_file call served while no other request is in flight.
DeleteBeforeRequests ==
    /\ \A t \in Threads : At(t, "idle")
    /\ Deletes({TRUE})

\* Deletes, then two requests that each undo one Operation, served at the
\* same time.
NextUndoThreads ==
    \/ DeleteBeforeRequests
    \/ \E t \in Threads : ThreadUndoStep(t)

SpecUndoThreads == Init /\ [][NextUndoThreads]_vars

\* The module-level FileManager of app.py and the FileManager instances of
\* PlexScannerAPI.delete_artwork on one backup directory.
NextInstances ==
    \/ Deletes({TRUE})
    \/ Undos({TRUE})
    \/ \E files \in ArtworkFiles :
          ScannerDeleteArtwork(files, [k \in DOMAIN files |-> <<TRUE, TRUE, TRUE>>])
    \/ TickSecond

SpecInstances == Init /\ [][NextInstances]_vars

\* Deletes and undos while directories of artwork are removed from outside.
NextParents ==
    \/ Deletes({TRUE})
    \/ Undos({TRUE})
    \/ \E d \in Directories : RemoveDirectory(d)
    \/ TickSecond

SpecParents == Init /\ [][NextParents]_vars

\* Single-file deletes and undos only.
NextDeleteUndo == Deletes({TRUE}) \/ Undos({TRUE}) \/ TickSecond

SpecDeleteUndo == Init /\ [][NextDeleteUndo]_vars

\* The engine behind the /api/delete and /api/undo routes.
NextApi == ApiDeletes({TRUE}) \/ Undos({TRUE}) \/ TickSecond

SpecApi == Init /\ [][NextApi]_vars

\* Batches on a filesystem whose I/O calls may raise.
NextBatchFaults == BatchDeletes(BOOLEAN) \/ TickSecond

SpecBatchFaults == Init /\ [][NextBatchFaults]_vars

\* Two requests that each delete one file, served at the same time.
NextThreads == \E t \in Threads : ThreadStep(t)

SpecThreads == Init /\ [][NextThreads]_vars

(***************************************************************************)
(* Properties.                                                             *)
(***************************************************************************)
AlreadyFinalized == [success |-> FALSE, error |-> "Operation cannot be undone"]

\* The Operation a call with this id addresses.
Addressed(operation_id) == operations[PyIndex(operations, operation_id)]

\* The contents stored anywhere on disk, at an artwork path or in the backup store.
StoredContents ==
    ({fs[p] : p \in Paths} \cup {backup[d][l] : d \in DOMAIN backup, l \in Leaves})
        \ {NoFile}

WorldUnchanged == UNCHANGED <<fs, backup, operations, operations_log>>

\* C1: every Operation of the log with can_undo == true has a file at its
\* backup_path, in every reachable state.
C1_UndoableHasBackup ==
    \A i \in DOMAIN operations :
        operations[i].can_undo => BackupExists(World, operations[i].backup_path)

\* C2: after a successful undo_operation(id) the file at original_path has the
\* content that was there when the Operation deleted it, and no file is left
\* at backup_path.
C2_UndoRestoresContent ==
    (result.call = "undo_operation" /\ Succeeded(result.ret)) =>
        LET i == PyIndex(operations, result.args[1])
        IN  /\ fs[operations[i].original_path] = deleted_content[i]
            /\ ~BackupExists(World, operations[i].backup_path)

\* C3: no delete_file or undo_operation call destroys content: every content
\* stored at an artwork path or in the backup store before the call is still
\* stored at some artwork path or backup path after it.
C3_NoContentDestroyed ==
    [][(Deletes({TRUE}) \/ Undos({TRUE})) => StoredContents \subseteq StoredContents']_vars

\* C4: for every Operation, in memory and in operations.json, can_undo is
\* true exactly when neither undone_at nor permanently_deleted has been set.
C4_CanUndoIffNoMarker ==
    \A ops \in {operations, operations_log.data} : \A i \in DOMAIN ops :
        ops[i].can_undo <=> (~ops[i].undone_at /\ ~ops[i].permanently_deleted)

\* C4 witness: the log holds an undone Operation and a purged one.
C4_Witness ==
    \E i, j \in DOMAIN operations :
        /\ operations[i].undone_at /\ ~operations[i].can_undo
        /\ operations[j].permanently_deleted /\ ~operations[j].can_undo
        /\ i # j

\* C5: an Operation is created with can_undo true, and once can_undo is
\* false on an Operation no later step makes it true again.
C5_CanUndoMonotone ==
    [][/\ \A i \in DOMAIN operations :
             ~operations[i].can_undo =>
                 (i \in DOMAIN operations' /\ ~operations'[i].can_undo)
       /\ \A i \in DOMAIN operations' \ DOMAIN operations : operations'[i].can_undo
      ]_vars

\* C5 witness: a purge went through on an Operation that was already undone,
\* and the Operation still has can_undo false.
C5_Witness ==
    /\ result.call = "permanently_delete_backup"
    /\ Succeeded(result.ret)
    /\ Addressed(result.args[1]).undone_at
    /\ ~Addressed(result.args[1]).can_undo

\* C6: undone_at and permanently_deleted are each set at most once on an
\* Operation and are never both set.
C6_MarkersExclusive ==
    [][/\ \A i \in DOMAIN operations' :
             ~(operations'[i].undone_at /\ operations'[i].permanently_deleted)
       /\ \A id \in OpIds :
             (UndoOperation(id, TRUE, TRUE) /\ Succeeded(result'.ret))
                 => ~Addressed(id).undone_at
       /\ \A id \in OpIds :
             (PermanentlyDeleteBackup(id, TRUE, TRUE) /\ Succeeded(result'.ret))
                 => ~Addressed(id).permanently_deleted
      ]_vars

\* C7: undo_operation(id) on an Operation whose can_undo is false returns
\* 'Operation cannot be undone' and changes neither the log nor any file.
C7_UndoFinalizedRefused ==
    [][\A id \in OpIds :
          (/\ UndoOperation(id, TRUE, TRUE)
           /\ IndexInRange(operations, id)
           /\ ~Addressed(id).can_undo)
          => (result'.ret = AlreadyFinalized /\ WorldUnchanged)
      ]_vars

\* C7 witness: a second undo of an Operation that was undone before was refused.
C7_Witness ==
    /\ result.call = "undo_operation"
    /\ result.ret = AlreadyFinalized
    /\ Addressed(result.args[1]).undone_at
    /\ fs[Addressed(result.args[1]).original_path] # NoFile

\* C8: permanently_delete_backup(id) on an Operation whose can_undo is false
\* signals AlreadyFinalized, deletes no file and sets no flag.
C8_PurgeFinalizedRefused ==
    [][\A id \in OpIds :
          (/\ PermanentlyDeleteBackup(id, TRUE, TRUE)
           /\ IndexInRange(operations, id)
           /\ ~Addressed(id).can_undo)
          => (result'.ret = AlreadyFinalized /\ WorldUnchanged)
      ]_vars

\* C9: undo_operation(id) and permanently_delete_backup(id) with an id outside
\* 0..len(log)-1, negative ids included, return 'Operation not found' and
\* change neither the log nor any file.
C9_OutOfRangeNotFound ==
    [][\A id \in OpIds :
          (/\ (id < 0 \/ id >= Len(operations))
           /\ (UndoOperation(id, TRUE, TRUE) \/ PermanentlyDeleteBackup(id, TRUE, TRUE)))
          => (result'.ret = NotFound /\ WorldUnchanged)
      ]_vars

\* C10: ids are strictly increasing in append order, and an id a successful
\* delete handed out is never handed out again, even after operations.json is
\* truncated from outside and reloaded.
C10_IdsNeverReused ==
    /\ \A i, j \in DOMAIN operations : i < j => operations[i].id < operations[j].id
    /\ ~reused

Done(t) == threads[t].pc = "done"

\* C11: two delete_file calls on different files that run at the same time
\* and both succeed never return the same operation id.
C11_ConcurrentIdsDistinct ==
    \A t, u \in Threads :
        (/\ t # u /\ Done(t) /\ Done(u)
         /\ threads[t].file_path # threads[u].file_path
         /\ Succeeded(threads[t].ret) /\ Succeeded(threads[u].ret))
        => threads[t].ret.operation_id # threads[u].ret.operation_id

\* C12: of two delete_file calls on the same existing path that run at the
\* same time, exactly one succeeds, the log gains exactly one Operation, and
\* the other call returns "File does not exist".
C12_SamePathOneWins ==
    \A t, u \in Threads :
        (t # u /\ Done(t) /\ Done(u) /\ threads[t].file_path = threads[u].file_path)
        => /\ Succeeded(threads[t].ret) # Succeeded(threads[u].ret)
           /\ Len(operations) = 1
           /\ ~Succeeded(threads[t].ret) => threads[t].ret = SourceMissing

\* The world the k-th delete_file of a batch of at most two paths starts in.
BeforePath(file_paths, oks, k) ==
    IF k = 1 THEN World
    ELSE delete_file(World, file_paths[1], now, oks[1][1], oks[1][2], oks[1][3]).w

\* What delete_file alone returns for the k-th path of the batch.
Standalone(file_paths, oks, k) ==
    delete_file(BeforePath(file_paths, oks, k), file_paths[k], now,
                oks[k][1], oks[k][2], oks[k][3])

\* C13: delete_multiple(paths) returns total == len(paths) and one result per
\* path, in input order, each equal to what delete_file alone returns for that
\* path in the state the earlier paths left; every path is processed whatever
\* happened to the paths before it.
C13_BatchIsDeleteFilePerPath ==
    [][\A file_paths \in Batches : \A oks \in [1 .. Len(file_paths) -> BOOLEAN \X BOOLEAN \X BOOLEAN] :
          DeleteMultiple(file_paths, oks) =>
              LET ret == result'.ret
              IN  /\ ~IsRaised(ret)
                  /\ ret.total = Len(file_paths)
                  /\ Len(ret.results) = Len(file_paths)
                  /\ \A k \in 1 .. Len(file_paths) :
                        /\ ret.results[k].file = file_paths[k]
                        /\ ret.results[k] =
                             ("file" :> file_paths[k]) @@ Standalone(file_paths, oks, k).ret
      ]_vars

\* C14: the batch_id a batch returns is the operation_id of its first
\* successful result.
C14_BatchIdIsFirstSuccess ==
    (result.call = "delete_multiple" /\ ~IsRaised(result.ret)) =>
        LET results == result.ret.results
            done == {k \in DOMAIN results : Succeeded(results[k])}
        IN  \A k \in done :
                (\A j \in done : k <= j) => result.ret.batch_id = results[k].operation_id

\* C15: the delete operation exposed to clients returns a BatchResult, with
\* batch_id, total and results, for every non-empty list of paths.
C15_DeleteReturnsBatchResult ==
    (result.call = "delete_artwork" /\ Len(result.args[1]) >= 1) =>
        {"batch_id", "total", "results"} \subseteq DOMAIN result.ret

\* C16: delete_file on a path that does not exist returns "File does not
\* exist" and changes neither the log, in memory and in operations.json, nor
\* the backup directory and its set of namespaces, nor any artwork file.
C16_MissingSourceNoChange ==
    [][\A file_path \in Paths :
          (fs[file_path] = NoFile /\ DeleteFile(file_path, TRUE, TRUE, TRUE)) =>
              /\ result'.ret = SourceMissing
              /\ DOMAIN backup' = DOMAIN backup
              /\ WorldUnchanged
      ]_vars

C16_Witness ==
    /\ result.call = "delete_file"
    /\ result.ret = SourceMissing
    /\ fs[result.args[1]] = NoFile
    /\ Len(operations) >= 1

\* No file is stored at the backup path: its namespace is gone or holds no
\* file under that name.
BackupAbsent(bp) == bp[1] \notin DOMAIN backup \/ backup[bp[1]][bp[2]] = NoFile

\* undo_operation(id) or permanently_delete_backup(id), I/O going through.
UndoOrPurge(operation_id) ==
    \/ UndoOperation(operation_id, TRUE, TRUE)
    \/ PermanentlyDeleteBackup(operation_id, TRUE, TRUE)

\* C17: undo_operation(id) and permanently_delete_backup(id) on an Operation
\* whose backup file is absent return "Backup file not found" and change
\* neither the Operation's flags, nor the log, nor any file.
C17_AbsentBackupRefused ==
    [][\A id \in OpIds :
          (/\ IndexInRange(operations, id)
           /\ BackupAbsent(Addressed(id).backup_path)
           /\ UndoOrPurge(id))
          => (result'.ret = BackupMissing /\ WorldUnchanged)
      ]_vars

\* C17, amended: the same for an Operation that is still undoable (can_undo
\* == true) and whose backup file is absent.
C17_UndoableAbsentBackupRefused ==
    [][\A id \in OpIds :
          (/\ IndexInRange(operations, id)
           /\ Addressed(id).can_undo
           /\ BackupAbsent(Addressed(id).backup_path)
           /\ UndoOrPurge(id))
          => (result'.ret = BackupMissing /\ WorldUnchanged)
      ]_vars

C17_Witness ==
    /\ result.call \in {"undo_operation", "permanently_delete_backup"}
    /\ result.ret = BackupMissing
    /\ Addressed(result.args[1]).can_undo
    /\ BackupAbsent(Addressed(result.args[1]).backup_path)

\* C18: when permanently_delete_backup(id) succeeds, no file is left at the
\* Operation's backup path; and every undo_operation(id) on an Operation
\* that was purged returns "Operation cannot be undone" and restores nothing.
C18_PurgeIsFinal ==
    [][\A id \in OpIds :
          IndexInRange(operations, id) =>
              /\ (PermanentlyDeleteBackup(id, TRUE, TRUE) /\ Succeeded(result'.ret))
                     => BackupAbsent(Addressed(id).backup_path)'
              /\ (Addressed(id).permanently_deleted /\ UndoOperation(id, TRUE, TRUE))
                     => (result'.ret = AlreadyFinalized /\ WorldUnchanged)
      ]_vars

\* C18 witness: the undo of a purged Operation was refused while a file of a
\* later delete sits at the purged Operation's backup path.
C18_Witness ==
    /\ result.call = "undo_operation"
    /\ result.ret = AlreadyFinalized
    /\ Addressed(result.args[1]).permanently_deleted
    /\ ~BackupAbsent(Addressed(result.args[1]).backup_path)

\* C19: whatever deletes and undos of other Operations came in between, the
\* undo of an Operation whose can_undo is true succeeds and puts back at its
\* original path the content that Operation relocated.
C19_UndoableStaysUndoable ==
    [][\A id \in OpIds :
          (/\ IndexInRange(operations, id)
           /\ Addressed(id).can_undo
           /\ UndoOperation(id, TRUE, TRUE))
          => /\ Succeeded(result'.ret)
             /\ fs'[Addressed(id).original_path] = deleted_content[PyIndex(operations, id)]
      ]_vars

Min(a, b) == IF a <= b THEN a ELSE b

\* C20: get_recent_operations(limit), for a limit of zero or more, returns
\* the min(limit, len(log)) Operations appended last, the last one first.
C20_RecentIsBoundedTail ==
    result.call = "get_recent_operations" =>
        LET limit == result.args[1]
            n == Min(limit, Len(operations))
        IN  /\ Len(result.ret) = n
            /\ \A k \in 1 .. n : result.ret[k] = operations[Len(operations) - k + 1]

\* The clock reading of a sweep and the time a namespace name stands for, in
\* half seconds: the reading is t seconds, plus a fraction unless onSecond.
Reading2(onSecond) == 2 * now + (IF onSecond THEN 0 ELSE 1)

OlderThan(name, days, onSecond) ==
    2 * Strptime(name) < Reading2(onSecond) - 2 * days * SecondsPerDay

\* C21: clean_old_backups(days) removes exactly the directories of the backup
\* root whose name parses as a timestamp older than now - days, keeps every
\* directory whose name does not parse, with its files, and returns exactly
\* the removed names, removed_count being their number.
C21_SweepRemovesExactlyOld ==
    [][\A days \in Days, onSecond \in BOOLEAN :
          CleanOldBackups(days, onSecond) =>
              LET old == {d \in DOMAIN backup :
                            ParsesAsTimestamp(d) /\ OlderThan(d, days, onSecond)}
              IN  /\ DOMAIN backup' = DOMAIN backup \ old
                  /\ \A d \in DOMAIN backup' : backup'[d] = backup[d]
                  /\ \A d \in DOMAIN backup : ~ParsesAsTimestamp(d) => d \in DOMAIN backup'
                  /\ result'.ret.removed = old
                  /\ result'.ret.removed_count = Cardinality(old)
      ]_vars

\* C21 witness: a sweep over one day removed a namespace and kept a younger
\* namespace and both foreign directories.
C21_Witness ==
    /\ result.call = "clean_old_backups"
    /\ result.args[1] = 1
    /\ result.ret.removed_count >= 1
    /\ ForeignNames \subseteq DOMAIN backup
    /\ \E d \in DOMAIN backup : ParsesAsTimestamp(d)

\* The namespaces of the backup root: the directories named by a timestamp.
Namespaces == {d \in DOMAIN backup : ParsesAsTimestamp(d)}

\* A second sweep with the same days at the same clock reading removes nothing.
SweepAgainRemovesNothing(days, onSecond) ==
    clean_old_backups(World', days, now, onSecond).ret.removed_count = 0

\* C22: clean_old_backups(0) removes all existing namespaces, and a second
\* sweep with the same days right after the first removes no further namespace.
C22_SweepZeroRemovesAll ==
    [][\A onSecond \in BOOLEAN :
          CleanOldBackups(0, onSecond) =>
              /\ Namespaces' = {}
              /\ SweepAgainRemovesNothing(0, onSecond)
      ]_vars

\* C22, amended: clean_old_backups(0) removes every namespace whose second
\* lies before the clock reading, which is every namespace but one named for
\* the very second the clock reads without a fraction; and a second sweep
\* with the same days at the same clock reading removes no further namespace,
\* for every days.
C22_SweepZeroRemovesAllPast ==
    [][\A days \in Days, onSecond \in BOOLEAN :
          CleanOldBackups(days, onSecond) =>
              /\ days = 0 =>
                    Namespaces' = {d \in Namespaces : Strptime(d) = now /\ onSecond}
              /\ SweepAgainRemovesNothing(days, onSecond)
      ]_vars

\* C22 witness: a sweep with days = 0 removed two namespaces and left none.
C22_Witness ==
    /\ result.call = "clean_old_backups"
    /\ result.args[1] = 0
    /\ result.ret.removed_count >= 2
    /\ Namespaces = {}

\* C23: clean_old_backups changes neither self.operations nor operations.json,
\* so an Operation whose namespace it removed keeps can_undo == true; and a
\* later undo_operation on such an Operation returns "Backup file not found"
\* and restores nothing.
C23_SweepLeavesLogAlone ==
    [][/\ \A days \in Days, onSecond \in BOOLEAN :
             CleanOldBackups(days, onSecond) =>
                 UNCHANGED <<operations, operations_log, fs>>
       /\ \A id \in OpIds :
             (/\ IndexInRange(operations, id)
              /\ PyIndex(operations, id) \in swept
              /\ UndoOperation(id, TRUE, TRUE))
             => (result'.ret = BackupMissing /\ WorldUnchanged)
      ]_vars

\* C24: after every delete_file, undo_operation or permanently_delete_backup
\* call that returns a dict, operations.json holds the in-memory list, so
\* that a FileManager constructed afterwards loads the same Operations, in
\* the same order, with the same flags.
C24_PersistedEqualsMemory ==
    (/\ result.call \in {"delete_file", "undo_operation", "permanently_delete_backup"}
     /\ ~IsRaised(result.ret))
    => LoadOperations(operations_log) = operations

\* The file_infos of the input of the last find_duplicates call, in discovery
\* order, and the pairs it reported.
Scanned == Discovered(result.args[1])

Pairs == result.ret

\* The places in the discovery order of the file_infos with hash h.
Carriers(h) == {k \in DOMAIN Scanned : Scanned[k].hash = h}

UsableHashes == {Scanned[k].hash : k \in DOMAIN Scanned} \ {NoHash}

\* C25: for every non-empty hash carried by k file_infos find_duplicates
\* reports exactly k - 1 pairs, so the pairs number the hashed file_infos
\* minus the distinct non-empty hashes; [A(h1), B(h1), C(h2)] gives only (A, B).
C25_PairsPerHash ==
    result.call = "find_duplicates" =>
        /\ \A h \in UsableHashes :
              Cardinality({j \in DOMAIN Pairs : Pairs[j][2].hash = h})
                  = Cardinality(Carriers(h)) - 1
        /\ Len(Pairs) = Cardinality({k \in DOMAIN Scanned : Scanned[k].hash # NoHash})
                           - Cardinality(UsableHashes)
        /\ [k \in DOMAIN Scanned |-> Scanned[k].hash]
               = <<HexDigest(<<0>>), HexDigest(<<0>>), HexDigest(<<1>>)>>
              => Pairs = <<<<Scanned[1], Scanned[2]>>>>

C25_Witness ==
    /\ result.call = "find_duplicates"
    /\ \E h \in UsableHashes : Cardinality(Carriers(h)) = 3
    /\ Cardinality(UsableHashes) = 2
    /\ Len(Pairs) = 2

\* The place of the earliest-discovered file_info with hash h.
Earliest(h) == CHOOSE k \in Carriers(h) : \A m \in Carriers(h) : k <= m

\* C26: in every reported pair (x, y) both carry the same non-empty hash, x is
\* the earliest-discovered file_info with that hash and y was discovered
\* after it; the earliest file_info of a hash is never the second element.
C26_FirstIsEarliest ==
    result.call = "find_duplicates" =>
        /\ \A j \in DOMAIN Pairs :
              /\ Pairs[j][1].hash = Pairs[j][2].hash
              /\ Pairs[j][1].hash # NoHash
              /\ Pairs[j][1] = Scanned[Earliest(Pairs[j][1].hash)]
              /\ Pairs[j][2].path > Pairs[j][1].path
        /\ \A h \in UsableHashes :
              \A j \in DOMAIN Pairs : Pairs[j][2] # Scanned[Earliest(h)]

C26_Witness ==
    /\ result.call = "find_duplicates"
    /\ \E h \in UsableHashes :
          /\ Cardinality(Carriers(h)) = 3
          /\ Earliest(h) = 2
          /\ \A k \in Carriers(h) \ {2} : <<Scanned[2], Scanned[k]>> \in
                                               {Pairs[j] : j \in DOMAIN Pairs}

\* The places of the file_infos without a hash (unreadable files).
Unhashed == {k \in DOMAIN Scanned : Scanned[k].hash = NoHash}

\* C27: a file_info whose hash is empty is in no reported pair, neither as
\* first nor as second element, however many there are and wherever they are.
C27_UnhashedNeverPaired ==
    result.call = "find_duplicates" =>
        \A k \in Unhashed : \A j \in DOMAIN Pairs :
            Scanned[k] # Pairs[j][1] /\ Scanned[k] # Pairs[j][2]

C27_Witness ==
    /\ result.call = "find_duplicates"
    /\ Unhashed = {1, 3}
    /\ Len(Scanned) = 4
    /\ Len(Pairs) = 1

\* The folders of the last scan and the file_infos it listed per folder.
Folders == result.args[1]

Listed(f) == result.ret.artwork[f]

\* The places of folder f the loop reaches: no image before them failed stat().
Reached(f) ==
    {k \in DOMAIN Folders[f] :
        \A j \in 1 .. k - 1 : Folders[f][j].image => Folders[f][j].stat}

\* The places of folder f that are to be listed.
Listable(f) == {k \in Reached(f) : Folders[f][k].image /\ Folders[f][k].stat}

\* C28: _get_file_hash never raises; an unreadable file gets the empty hash,
\* the scan is not aborted by it, and the other image files of the scan,
\* those after it too, are listed in order with the digest of their bytes.
C28_UnreadableDoesNotAbortScan ==
    result.call = "get_artwork_files" =>
        /\ \A e \in ListedEntries : ~_get_file_hash(e.file).raised
        /\ \A f \in DOMAIN Folders :
              /\ {Listed(f)[i].path : i \in DOMAIN Listed(f)}
                    = {<<f, k>> : k \in Listable(f)}
              /\ \A i, j \in DOMAIN Listed(f) :
                    i < j => Listed(f)[i].path[2] < Listed(f)[j].path[2]
              /\ \A i \in DOMAIN Listed(f) :
                    LET file == Folders[f][Listed(f)[i].path[2]].file
                    IN  Listed(f)[i].hash =
                            IF file.readable THEN HexDigest(file.bytes) ELSE NoHash

C28_Witness ==
    /\ result.call = "get_artwork_files"
    /\ Len(Folders[1]) = 3
    /\ ~Folders[1][1].file.readable
    /\ Len(Listed(1)) = 3
    /\ Listed(1)[1].hash = NoHash
    /\ Listed(1)[2].hash = HexDigest(<<1, 0, 1>>)
    /\ Listed(1)[3].hash = HexDigest(<<0>>)
    /\ Len(Listed(2)) = 1

\* The file of the last _get_file_hash call and the hash it returned.
Hashed == result.args[1]

\* The byte strings that differ from bytes in exactly one byte.
OneByteModified(bytes) ==
    {other \in [DOMAIN bytes -> Bytes] :
        Cardinality({k \in DOMAIN bytes : other[k] # bytes[k]}) = 1}

\* C29: the hash of a readable file is the digest of all its bytes, the same
\* for every size of read (wherever the chunk boundaries fall), so files of
\* identical bytes and the same file hashed again get the same hash; a file
\* that differs in a single byte gets a different one.
C29_HashOfAllBytes ==
    (result.call = "_get_file_hash" /\ Hashed.readable) =>
        /\ result.ret = Returned(HexDigest(Hashed.bytes))
        /\ \A size \in 1 .. MaxLen + 1 : HashInChunks(Hashed, size) = result.ret
        /\ \A file \in HashFiles :
              (file.readable /\ file.bytes = Hashed.bytes)
                  => _get_file_hash(file) = result.ret
        /\ \A other \in OneByteModified(Hashed.bytes) :
              _get_file_hash([bytes |-> other, readable |-> TRUE]) # result.ret

C29_Witness ==
    /\ result.call = "_get_file_hash"
    /\ Hashed.readable
    /\ Len(Hashed.bytes) = 2 * ChunkSize + 1
    /\ result.ret = Returned(HexDigest(Hashed.bytes))
    /\ Hashed.bytes[Len(Hashed.bytes)] = 1

\* Operation i is of another file with the leaf name of p, made in the second
\* of the present clock reading, and its backup is still in the store.
DeletedThisSecond(i, p) ==
    /\ operations[i].original_path # p
    /\ Name(operations[i].original_path) = Name(p)
    /\ operations[i].backup_path[1] = Strftime(now)
    /\ operations[i].backup_path[1] \in DOMAIN backup
    /\ backup[operations[i].backup_path[1]][Name(p)] = deleted_content[i]

\* The files of the backup store, as <<namespace, leaf name>>.
BackupFiles == {<<d, l>> \in (DOMAIN backup) \X Leaves : backup[d][l] # NoFile}

Immutable(operation) ==
    [id |-> operation.id, timestamp |-> operation.timestamp, action |-> operation.action,
     original_path |-> operation.original_path, backup_path |-> operation.backup_path]

\* The call whose return the state shows is an undo or a purge.
UndoOrPurgeReturned == result.call \in {"undo_operation", "permanently_delete_backup"}

\* C31: the log only grows and the id, timestamp, action, original_path and
\* backup_path of an Operation never change; an undo, a purge or a sweep
\* leaves the entries in place and in order, a sweep changes none, an undo or
\* a purge changes at most the flags of the Operation it addresses.
C31_LogAppendOnly ==
    [][/\ Len(operations') >= Len(operations)
       /\ \A i \in DOMAIN operations :
             Immutable(operations'[i]) = Immutable(operations[i])
       /\ result'.call = "clean_old_backups" => operations' = operations
       /\ UndoOrPurgeReturned' =>
             /\ Len(operations') = Len(operations)
             /\ \A i \in DOMAIN operations :
                   operations'[i] # operations[i]
                       => /\ IndexInRange(operations, result'.args[1])
                          /\ i = PyIndex(operations, result'.args[1])]_vars

C31_Witness ==
    /\ result.call = "undo_operation"
    /\ Succeeded(result.ret)
    /\ result.args[1] = 0
    /\ Len(operations) = 2
    /\ operations[1].undone_at
    /\ operations[2].permanently_deleted
    /\ Immutable(operations[1]).timestamp = Strftime(0)

ReturnedFailure(ret) == "success" \in DOMAIN ret /\ ~ret.success

\* C34: a delete_file call that returns success == false has left the source
\* file where it was and has added no Operation to the log in memory,
\* whichever I/O call failed.
C34_FailedDeleteChangesNothing ==
    [][\A p \in Paths : \A mkdirOk, moveOk, saveOk \in BOOLEAN :
          (DeleteFile(p, mkdirOk, moveOk, saveOk) /\ ReturnedFailure(result'.ret))
              => fs'[p] = fs[p] /\ operations' = operations]_vars

\* The fields of an Operation an undo or a purge may write.
Flags(operation) ==
    [can_undo |-> operation.can_undo, undone_at |-> operation.undone_at,
     permanently_deleted |-> operation.permanently_deleted]

\* What is at a backup path: a content, or NoFile.
BackupAt(bk, bp) == IF bp[1] \in DOMAIN bk THEN bk[bp[1]][bp[2]] ELSE NoFile

\* C35: an undo_operation or permanently_delete_backup call that returns
\* success == false has left the flags of the Operation it addresses and the
\* file at its backup_path as they were, whichever I/O call failed.
C35_FailedFinalizeChangesNothing ==
    [][\A id \in OpIds : \A fileOk, saveOk \in BOOLEAN :
          (/\ IndexInRange(operations, id)
           /\ \/ UndoOperation(id, fileOk, saveOk)
              \/ PermanentlyDeleteBackup(id, fileOk, saveOk)
           /\ ReturnedFailure(result'.ret))
          => /\ Flags(Addressed(id)') = Flags(Addressed(id))
             /\ BackupAt(backup', Addressed(id).backup_path)
                   = BackupAt(backup, Addressed(id).backup_path)]_vars

\* C38: the file_count get_backup_size returns is the number of backup files
\* in the namespace directories (operations.json is not counted), so it is 0
\* when the backup of every Operation has been restored or purged.
C38_FileCountIsBackupFiles ==
    result.call = "get_backup_size" =>
        result.ret.file_count = Cardinality(BackupFiles)

\* Both requests have returned and were undo_operation calls for Operation i.
BothUndid(t, u, i) ==
    /\ t # u /\ Done(t) /\ Done(u)
    /\ threads[t].operation_id = i - 1
    /\ threads[u].operation_id = i - 1

\* C37: of two undo_operation calls for the same Operation that run at the
\* same time exactly one returns success, whatever the interleaving; the file
\* it moved is at original_path, no file is left at backup_path, and the
\* Operation has can_undo == false and undone_at set, in memory and in
\* operations.json.
C37_ConcurrentUndoOnce ==
    \A t, u \in Threads : \A i \in DOMAIN operations :
        BothUndid(t, u, i) =>
            /\ Succeeded(threads[t].ret) # Succeeded(threads[u].ret)
            /\ Succeeded(threads[t].ret) =>
                  /\ fs[operations[i].original_path] = threads[t].content
                  /\ threads[t].content # NoFile
            /\ BackupAbsent(operations[i].backup_path)
            /\ ~operations[i].can_undo /\ operations[i].undone_at
            /\ operations_log.data = operations

\* C37 witness: both calls passed the can_undo and the backup check before
\* either moved the file; one moved it and the other's move raised.
C37_Witness ==
    \E t, u \in Threads : \E i \in DOMAIN operations :
        /\ BothUndid(t, u, i)
        /\ Succeeded(threads[t].ret)
        /\ threads[u].ret = IOError
        /\ threads[u].content = NoFile

\* The Operations of operations.json.
Persisted == operations_log.data

\* C36: with the module-level FileManager and the instances made by
\* PlexScannerAPI.delete_artwork on one backup directory, every Operation the
\* persisted log holds (each successful delete has written its own there)
\* is still in it after any further call of either instance, and no two
\* Operations of the persisted log have the same id.
C36_InstancesKeepLog ==
    [][/\ \A i \in DOMAIN Persisted :
             \E j \in DOMAIN Persisted' : Immutable(Persisted'[j]) = Immutable(Persisted[i])
       /\ \A i, j \in DOMAIN Persisted' :
             Persisted'[i].id = Persisted'[j].id => i = j]_vars

\* C33: an undo_operation of an Operation that can be undone and whose backup
\* file is in the store succeeds whether or not the directory of
\* original_path still exists: afterwards the directory exists and the
\* backup file is at original_path.
C33_UndoRecreatesParents ==
    [][\A id \in OpIds :
          (/\ IndexInRange(operations, id)
           /\ Addressed(id).can_undo
           /\ BackupAt(backup, Addressed(id).backup_path) # NoFile
           /\ UndoOperation(id, TRUE, TRUE))
          => /\ Succeeded(result'.ret)
             /\ fs'[Parent(Addressed(id).original_path)] = Directory
             /\ fs'[Addressed(id).original_path]
                   = BackupAt(backup, Addressed(id).backup_path)]_vars

\* C33 witness: lib1/poster.jpg was deleted, the directory lib1 was removed
\* (art.jpg, which no Operation relocated, went with it), and the undo put
\* poster.jpg back into a directory lib1 made anew.
C33_Witness ==
    /\ result.call = "undo_operation"
    /\ Succeeded(result.ret)
    /\ Len(operations) = 1
    /\ operations[1].original_path = <<"lib1", "poster.jpg">>
    /\ fs[<<"lib1", "art.jpg">>] = NoFile
    /\ fs[<<"lib1">>] = Directory
    /\ fs[<<"lib1", "poster.jpg">>] = "c1"

====
